---- MODULE Spec2Model ----
(***************************************************************************)
(* Model of Arduino_Mobile_Phone.ino: the touch keypad polling loop, the   *)
(* on-screen dial number line and the blocking call sequence that talks    *)
(* to the GSM modem over the software serial link.                         *)
(***************************************************************************)
EXTENDS Integers, Sequences, FiniteSets, TLC

(* ---------------------------------------------------------------------- *)
(* Program constants                                                       *)
(* ---------------------------------------------------------------------- *)
BLACK == 0
BLUE == 31
RED == 63488
GREEN == 2016
CYAN == 2047
WHITE == 65535
OLIVE == 31712
LIGHTGREY == 50712
DARKGREY == 31727
GREENYELLOW == 45029
PINK == 63519

BUTTON_R == 25
BUTTON_SPACING_X == 25
BUTTON_SPACING_Y == 5
EDG_Y == 5
EDG_X == 20

TS_MINX == 910
TS_MAXX == 180
TS_MINY == 760
TS_MAXY == 135

MINPRESSURE == 10
MAXPRESSURE == 1000

\* LCDWIKI_KBV my_lcd(240, 320, ...)
Display_Width == 240
Display_Height == 320

\* sizeof(phone_button) / sizeof(button_info)
NumButtons == 15

\* the capacity tested by "if (n < 13)"
MaxDigits == 13

\* delay() arguments, in milliseconds
SettleDelay == 500
HoldDelay == 20000

\* 16-bit unsigned arithmetic of text_x, text_y and n (uint16_t)
U16(v) == v % 65536

\* p.x and p.y are int16_t: the conversion on assignment
I16(v) == LET m == v % 65536 IN IF m >= 32768 THEN m - 65536 ELSE m

(* ---------------------------------------------------------------------- *)
(* Bounds of the model                                                     *)
(* ---------------------------------------------------------------------- *)
\* number of call presses explored
MaxCalls == 1
\* number of bytes that arrive on the two serial channels together
MaxBytes == 2
\* longest run of presses tried by the round trip of appends and deletes
MaxPresses == 15
\* number of items kept of what was written to a serial channel
MaxLog == 10
\* number of unread bytes a receive buffer holds when a channel streams
RxRoom == 1

(* ---------------------------------------------------------------------- *)
(* Keypad layout                                                           *)
(* ---------------------------------------------------------------------- *)
Button(name, size, nameColour, colour, x, y) ==
    [button_name |-> name, button_name_size |-> size,
     button_name_colour |-> nameColour, button_colour |-> colour,
     button_x |-> U16(x), button_y |-> U16(y)]

\* mutant: the columns step by the spacing alone, not by diameter and spacing
ColX_spacing_only(c) == EDG_X + BUTTON_R + c * BUTTON_SPACING_X - 1

ColX(c) == EDG_X + (2 * c + 1) * BUTTON_R + c * BUTTON_SPACING_X - 1

RowY(spacings, radii) ==
    Display_Height - EDG_Y - spacings * BUTTON_SPACING_Y - radii * BUTTON_R - 1

phone_button_init ==
    << Button("1", 3, BLACK, CYAN, ColX(0), RowY(4, 9)),
       Button("2", 3, BLACK, CYAN, ColX(1), RowY(4, 9)),
       Button("3", 3, BLACK, CYAN, ColX(2), RowY(4, 9)),
       Button("4", 3, BLACK, CYAN, ColX(0), RowY(3, 7)),
       Button("5", 3, BLACK, CYAN, ColX(1), RowY(3, 7)),
       Button("6", 3, BLACK, CYAN, ColX(2), RowY(3, 7)),
       Button("7", 3, BLACK, CYAN, ColX(0), RowY(2, 5)),
       Button("8", 3, BLACK, CYAN, ColX(1), RowY(2, 5)),
       Button("9", 3, BLACK, CYAN, ColX(2), RowY(2, 5)),
       Button("#", 3, BLACK, PINK, ColX(0), RowY(1, 3)),
       Button("0", 3, BLACK, CYAN, ColX(1), RowY(1, 3)),
       Button("*", 3, BLACK, PINK, ColX(2), RowY(1, 3)),
       Button("end", 2, BLACK, RED, ColX(0), RowY(0, 1)),
       Button("call", 2, BLACK, GREEN, ColX(1), RowY(0, 1)),
       Button("dele", 2, BLACK, LIGHTGREY, ColX(2), RowY(0, 1)) >>

\* phone_button[i], indexed from 0 as in the source
phone_button == [i \in 0..(NumButtons - 1) |-> phone_button_init[i + 1]]

text_x_add == U16(6 * phone_button[0].button_name_size)
text_y_add == U16(8 * phone_button[0].button_name_size)

(* ---------------------------------------------------------------------- *)
(* Hit test                                                                *)
(* ---------------------------------------------------------------------- *)
Abs(v) == IF v < 0 THEN -v ELSE v

\* C integer division: truncation toward zero
TruncDiv(a, b) ==
    IF (a >= 0) = (b > 0) THEN Abs(a) \div Abs(b) ELSE -(Abs(a) \div Abs(b))

\* Arduino map(): (x - in_min) * (out_max - out_min) / (in_max - in_min) + out_min
map(x, in_min, in_max, out_min, out_max) ==
    TruncDiv((x - in_min) * (out_max - out_min), in_max - in_min) + out_min

\* mutant: the calibration taken the usual way round, low raw value first
MapX_not_inverted(rx) == I16(map(rx, TS_MAXX, TS_MINX, 0, Display_Width))

MapX(rx) == I16(map(rx, TS_MINX, TS_MAXX, 0, Display_Width))
MapY(ry) == I16(map(ry, TS_MINY, TS_MAXY, 0, Display_Height))

\* mutant: the y range is not tested
is_pressed_x_only(x1, y1, x2, y2, px, py) ==
    px > x1 /\ px < x2

\* mutant: the edges of the square count as inside
is_pressed_closed(x1, y1, x2, y2, px, py) ==
    (px >= x1 /\ px <= x2) /\ (py >= y1 /\ py <= y2)

is_pressed(x1, y1, x2, y2, px, py) ==
    (px > x1 /\ px < x2) /\ (py > y1 /\ py < y2)

\* the test of line 201 for button i and the mapped point (px, py)
Hit(i, px, py) ==
    is_pressed(I16(phone_button[i].button_x - BUTTON_R),
               I16(phone_button[i].button_y - BUTTON_R),
               I16(phone_button[i].button_x + BUTTON_R),
               I16(phone_button[i].button_y + BUTTON_R), px, py)

\* mutant: the thresholds themselves qualify
Qualifies_inclusive(z) == z >= MINPRESSURE /\ z <= MAXPRESSURE

Qualifies(z) == z > MINPRESSURE /\ z < MAXPRESSURE

(* ---------------------------------------------------------------------- *)
(* State                                                                   *)
(* ---------------------------------------------------------------------- *)
VARIABLES
    pc,          \* position of the single thread of control inside loop()
    p,           \* TSPoint p of loop(): [x, y, z]
    i,           \* index of the for loop of line 200 while a call blocks it
    ret,         \* where updateSerial() returns to
    n,           \* uint16_t n: number of characters in the number line
    text_x,      \* uint16_t text_x: cursor
    text_y,      \* uint16_t text_y
    line,        \* glyphs visible in the number line of the display
    disc,        \* fill and label colour of each button as drawn
    banner,      \* text visible in the status banner region
    mySerialTx,  \* what was written to the Modem Link, oldest first
    mySerialRx,  \* bytes received from the modem and not yet read
    serialTx,    \* what was written to the local control channel
    serialRx,    \* bytes received from the local console and not yet read
    arrived,     \* number of bytes the two channels have delivered
    ev           \* what the current call of loop() has done so far, in order

vars == << pc, p, i, ret, n, text_x, text_y, line, disc, banner,
           mySerialTx, mySerialRx, serialTx, serialRx, arrived, ev >>

NoPoint == [x |-> 0, y |-> 0, z |-> 0]

NoRect == << >>

Ev(op, k, s, r) == [op |-> op, k |-> k, s |-> s, r |-> r]

DialCommand == "ATD+916374354166;"
HangupCommand == "ATH"
LineEnd == "\r\n"

\* one more item written to a serial channel: the record keeps the last
\* MaxLog items
Written(tx, item) ==
    IF Len(tx) < MaxLog THEN Append(tx, item) ELSE Append(Tail(tx), item)

\* Print::println(str): the string, then "\r\n"
println(tx, str) == Written(Written(tx, str), LineEnd)

\* the buttons as show_menu() draws them
MenuDisc ==
    [b \in 0..(NumButtons - 1) |->
        [fill |-> phone_button[b].button_colour,
         label |-> phone_button[b].button_name_colour]]

Init ==
    /\ pc = "poll"
    /\ p = NoPoint
    /\ i = 0
    /\ ret = "none"
    /\ n = 0
    /\ text_x = 10
    /\ text_y = 6
    /\ line = {}
    /\ disc = MenuDisc
    /\ banner = ""
    /\ mySerialTx = << >>
    /\ mySerialRx = << >>
    /\ serialTx = << >>
    /\ serialRx = << >>
    /\ arrived = 0
    /\ ev = << >>

(* ---------------------------------------------------------------------- *)
(* Display of the number line                                              *)
(* ---------------------------------------------------------------------- *)
\* a character printed by show_string at (x, y) with text size csize
Glyph(ch, x, y, csize) == [ch |-> ch, x |-> x, y |-> y, size |-> csize]

\* the pixels a glyph of the 5x7 font inks: columns x .. InkX1, rows y .. InkY1
InkX1(g) == g.x + 5 * g.size - 1
InkY1(g) == g.y + 7 * g.size - 1

Min(a, b) == IF a < b THEN a ELSE b
Max(a, b) == IF a > b THEN a ELSE b

\* Fill_Rectangle(x1, y1, x2, y2) in the background colour over the number
\* line: a glyph wholly covered disappears, a glyph partly covered is damaged
FillRectangle(glyphs, x1, y1, x2, y2) ==
    LET xa == Min(x1, x2)
        xb == Max(x1, x2)
        ya == Min(y1, y2)
        yb == Max(y1, y2)
        Touches(g) == ~(InkX1(g) < xa \/ g.x > xb \/ InkY1(g) < ya \/ g.y > yb)
        Covers(g) == xa <= g.x /\ InkX1(g) <= xb /\ ya <= g.y /\ InkY1(g) <= yb
    IN  {g \in glyphs : ~Touches(g)}
          \cup {[g EXCEPT !.ch = "damaged"] : g \in {h \in glyphs : Touches(h) /\ ~Covers(h)}}

(* ---------------------------------------------------------------------- *)
(* The body of loop() for one matching button                              *)
(* ---------------------------------------------------------------------- *)
\* lines 202-208: highlight the button, wait, draw it again as it was
PressFeedback(b, st) ==
    LET pressed == [st.disc EXCEPT ![b] = [fill |-> DARKGREY, label |-> WHITE]]
        restored == [pressed EXCEPT ![b] =
                        [fill |-> phone_button[b].button_colour,
                         label |-> phone_button[b].button_name_colour]]
    IN  [st EXCEPT !.disc = restored,
                   !.ev = Append(@, Ev("press", b, "", NoRect))]

\* mutant: the capacity is not tested
AppendChar_unbounded(b, st) ==
    [st EXCEPT
        !.line = @ \cup {Glyph(phone_button[b].button_name, st.text_x, st.text_y,
                               phone_button[b].button_name_size)},
        !.text_x = U16(@ + text_x_add - 1),
        !.n = U16(@ + 1),
        !.ev = Append(@, Ev("print", b, phone_button[b].button_name,
                            << st.text_x, st.text_y >>))]

\* mutant: the cursor advances by text_x_add, not text_x_add - 1
AppendChar_full_step(b, st) ==
    IF st.n < MaxDigits
    THEN [st EXCEPT
            !.line = @ \cup {Glyph(phone_button[b].button_name, st.text_x, st.text_y,
                                   phone_button[b].button_name_size)},
            !.text_x = U16(@ + text_x_add),
            !.n = U16(@ + 1),
            !.ev = Append(@, Ev("print", b, phone_button[b].button_name,
                                << st.text_x, st.text_y >>))]
    ELSE st

\* mutant: a character equal to the one before the cursor is taken for a
\* repeat of the same press and dropped
AppendChar_no_repeat(b, st) ==
    IF st.n < MaxDigits
       /\ ~\E g \in st.line : g.x + text_x_add - 1 = st.text_x
                                /\ g.ch = phone_button[b].button_name
    THEN [st EXCEPT
            !.line = @ \cup {Glyph(phone_button[b].button_name, st.text_x, st.text_y,
                                   phone_button[b].button_name_size)},
            !.text_x = U16(@ + text_x_add - 1),
            !.n = U16(@ + 1),
            !.ev = Append(@, Ev("print", b, phone_button[b].button_name,
                                << st.text_x, st.text_y >>))]
    ELSE st

\* lines 210-215: digits 0-9, # and *
AppendChar(b, st) ==
    IF st.n < MaxDigits
    THEN [st EXCEPT
            !.line = @ \cup {Glyph(phone_button[b].button_name, st.text_x, st.text_y,
                                   phone_button[b].button_name_size)},
            !.text_x = U16(@ + text_x_add - 1),
            !.n = U16(@ + 1),
            !.ev = Append(@, Ev("print", b, phone_button[b].button_name,
                                << st.text_x, st.text_y >>))]
    ELSE st

\* mutant: end also hangs up
EndCall_hangs_up(st) ==
    [st EXCEPT !.banner = "Calling ended",
               !.mySerialTx = println(@, HangupCommand),
               !.ev = @ \o << Ev("banner", 0, "Calling ended", NoRect),
                              Ev("println", 0, HangupCommand, NoRect) >>]

\* lines 216-219: end
EndCall(st) ==
    [st EXCEPT !.banner = "Calling ended",
               !.ev = Append(@, Ev("banner", 0, "Calling ended", NoRect))]

\* the characters of the number line, left to right
RECURSIVE BufferText(_)
BufferText(glyphs) ==
    IF glyphs = {} THEN ""
    ELSE LET g == CHOOSE h \in glyphs : \A k \in glyphs : h.x <= k.x
         IN  g.ch \o BufferText(glyphs \ {g})

\* mutant: the number on the screen is dialled
StartCall_from_buffer(st) ==
    LET cmd == "ATD" \o BufferText(st.line) \o ";"
    IN  [st EXCEPT !.banner = "Calling...",
                   !.mySerialTx = println(@, cmd),
                   !.ev = @ \o << Ev("banner", 0, "Calling...", NoRect),
                                  Ev("println", 0, cmd, NoRect) >>,
                   !.pc = "updateSerial",
                   !.ret = "hold"]

\* mutant: the hang-up follows the first relay at once, without the hold
StartCall_no_hold(st) ==
    [st EXCEPT !.banner = "Calling...",
               !.mySerialTx = println(@, DialCommand),
               !.ev = @ \o << Ev("banner", 0, "Calling...", NoRect),
                              Ev("println", 0, DialCommand, NoRect) >>,
               !.pc = "updateSerial",
               !.ret = "hangup"]

\* lines 220-227: call, up to the entry of the first updateSerial()
StartCall(st) ==
    [st EXCEPT !.banner = "Calling...",
               !.mySerialTx = println(@, DialCommand),
               !.ev = @ \o << Ev("banner", 0, "Calling...", NoRect),
                              Ev("println", 0, DialCommand, NoRect) >>,
               !.pc = "updateSerial",
               !.ret = "hold"]

\* mutant: the empty buffer is not tested
DeleteChar_unguarded(st) ==
    LET x == U16(st.text_x - (text_x_add - 1))
        x2 == U16(x + text_x_add - 1)
        y2 == U16(st.text_y + text_y_add - 2)
    IN  [st EXCEPT
            !.text_x = x,
            !.line = FillRectangle(@, x, st.text_y, x2, y2),
            !.n = U16(@ - 1),
            !.ev = Append(@, Ev("erase", 0, "", << x, st.text_y, x2, y2 >>))]

\* mutant: the cursor steps back by text_x_add, not text_x_add - 1
DeleteChar_full_step(st) ==
    IF st.n > 0
    THEN LET x == U16(st.text_x - text_x_add)
             x2 == U16(x + text_x_add - 1)
             y2 == U16(st.text_y + text_y_add - 2)
         IN  [st EXCEPT
                !.text_x = x,
                !.line = FillRectangle(@, x, st.text_y, x2, y2),
                !.n = U16(@ - 1),
                !.ev = Append(@, Ev("erase", 0, "", << x, st.text_y, x2, y2 >>))]
    ELSE st

\* mutant: the rectangle is painted before the cursor steps back
DeleteChar_erase_first(st) ==
    IF st.n > 0
    THEN LET x == U16(st.text_x - (text_x_add - 1))
             x2 == U16(st.text_x + text_x_add - 1)
             y2 == U16(st.text_y + text_y_add - 2)
         IN  [st EXCEPT
                !.text_x = x,
                !.line = FillRectangle(@, st.text_x, st.text_y, x2, y2),
                !.n = U16(@ - 1),
                !.ev = Append(@, Ev("erase", 0, "", << st.text_x, st.text_y, x2, y2 >>))]
    ELSE st

\* lines 231-237: delete
DeleteChar(st) ==
    IF st.n > 0
    THEN LET x == U16(st.text_x - (text_x_add - 1))
             x2 == U16(x + text_x_add - 1)
             y2 == U16(st.text_y + text_y_add - 2)
         IN  [st EXCEPT
                !.text_x = x,
                !.line = FillRectangle(@, x, st.text_y, x2, y2),
                !.n = U16(@ - 1),
                !.ev = Append(@, Ev("erase", 0, "", << x, st.text_y, x2, y2 >>))]
    ELSE st

\* lines 210-238: the if / else if chain on the button index
Dispatch(b, st) ==
    IF b < 12 THEN AppendChar(b, st)
    ELSE IF b = 12 THEN EndCall(st)
    ELSE IF b = 13 THEN StartCall(st)
    ELSE IF b = 14 THEN DeleteChar(st)
    ELSE st

\* lines 200-240: the for loop from index b on; it runs to the end of the
\* table unless a call press blocks it inside updateSerial()
RECURSIVE Scan(_, _, _, _)
Scan(b, px, py, st) ==
    IF b >= NumButtons
    THEN [st EXCEPT !.pc = "return", !.i = 0]
    ELSE IF Hit(b, px, py)
         THEN LET s1 == Dispatch(b, PressFeedback(b, st))
              IN  IF s1.pc = "updateSerial"
                  THEN [s1 EXCEPT !.i = b]
                  ELSE Scan(b + 1, px, py, s1)
         ELSE Scan(b + 1, px, py, st)

\* the part of the state the for loop works on
LoopState ==
    [n |-> n, text_x |-> text_x, text_y |-> text_y, line |-> line, disc |-> disc,
     banner |-> banner, mySerialTx |-> mySerialTx, ev |-> ev,
     pc |-> pc, i |-> i, ret |-> ret]

Store(st) ==
    /\ n' = st.n
    /\ text_x' = st.text_x
    /\ text_y' = st.text_y
    /\ line' = st.line
    /\ disc' = st.disc
    /\ banner' = st.banner
    /\ mySerialTx' = st.mySerialTx
    /\ ev' = st.ev
    /\ pc' = st.pc
    /\ i' = st.i
    /\ ret' = st.ret

(* ---------------------------------------------------------------------- *)
(* Actions                                                                 *)
(* ---------------------------------------------------------------------- *)
\* number of dial command lines written to the Modem Link so far
Count(seq, v) == Cardinality({k \in 1..Len(seq) : seq[k] = v})

\* whether the sample s would be dispatched to the call button
WouldCall(s) == Qualifies(s.z) /\ Hit(13, MapX(s.x), MapY(s.y))

\* lines 189-194: TSPoint p = ts.getPoint()
GetPoint(s) ==
    /\ pc = "poll"
    /\ WouldCall(s) => Count(mySerialTx, DialCommand) < MaxCalls
    /\ p' = s
    /\ pc' = "touch"
    /\ UNCHANGED << i, ret, n, text_x, text_y, line, disc, banner,
                    mySerialTx, mySerialRx, serialTx, serialRx, arrived, ev >>

\* lines 196-241: the pressure filter, the mapping and the for loop
Touch ==
    /\ pc = "touch"
    /\ IF Qualifies(p.z)
       THEN LET px == MapX(p.x)
                py == MapY(p.y)
            IN  /\ Store(Scan(0, px, py, LoopState))
                /\ p' = [p EXCEPT !.x = px, !.y = py]
       ELSE /\ pc' = "return"
            /\ UNCHANGED p
            /\ UNCHANGED << i, ret, n, text_x, text_y, line, disc, banner,
                            mySerialTx, ev >>
    /\ UNCHANGED << mySerialRx, serialTx, serialRx, arrived >>

\* line 246: delay(500)
UpdateSerialDelay ==
    /\ pc = "updateSerial"
    /\ pc' = "forward"
    /\ ev' = Append(ev, Ev("updateSerial", SettleDelay, "", NoRect))
    /\ UNCHANGED << p, i, ret, n, text_x, text_y, line, disc, banner,
                    mySerialTx, mySerialRx, serialTx, serialRx, arrived >>

\* lines 247-249: while (Serial.available()) mySerial.write(Serial.read())
UpdateSerialForward ==
    /\ pc = "forward"
    /\ IF Len(serialRx) > 0
       THEN /\ mySerialTx' = Written(mySerialTx, Head(serialRx))
            /\ serialRx' = Tail(serialRx)
            /\ pc' = "forward"
       ELSE /\ pc' = "backward"
            /\ UNCHANGED << mySerialTx, serialRx >>
    /\ UNCHANGED << p, i, ret, n, text_x, text_y, line, disc, banner,
                    mySerialRx, serialTx, arrived, ev >>

\* mutant: an if instead of the while: one byte is copied, then it returns
UpdateSerialBackward_once ==
    /\ pc = "backward"
    /\ IF Len(mySerialRx) > 0
       THEN /\ serialTx' = Append(serialTx, Head(mySerialRx))
            /\ mySerialRx' = Tail(mySerialRx)
       ELSE UNCHANGED << serialTx, mySerialRx >>
    /\ pc' = ret
    /\ ret' = "none"
    /\ UNCHANGED << p, i, n, text_x, text_y, line, disc, banner,
                    mySerialTx, serialRx, arrived, ev >>

\* lines 250-252: while (mySerial.available()) Serial.write(mySerial.read())
UpdateSerialBackward ==
    /\ pc = "backward"
    /\ IF Len(mySerialRx) > 0
       THEN /\ serialTx' = Written(serialTx, Head(mySerialRx))
            /\ mySerialRx' = Tail(mySerialRx)
            /\ pc' = "backward"
            /\ UNCHANGED ret
       ELSE /\ pc' = ret
            /\ ret' = "none"
            /\ UNCHANGED << serialTx, mySerialRx >>
    /\ UNCHANGED << p, i, n, text_x, text_y, line, disc, banner,
                    mySerialTx, serialRx, arrived, ev >>

\* line 228: delay(20000)
Hold ==
    /\ pc = "hold"
    /\ pc' = "hangup"
    /\ ev' = Append(ev, Ev("delay", HoldDelay, "", NoRect))
    /\ UNCHANGED << p, i, ret, n, text_x, text_y, line, disc, banner,
                    mySerialTx, mySerialRx, serialTx, serialRx, arrived >>

\* mutant: the hang-up command is not written
Hangup_not_sent ==
    /\ pc = "hangup"
    /\ pc' = "updateSerial"
    /\ ret' = "resume"
    /\ UNCHANGED << p, i, n, text_x, text_y, line, disc, banner, mySerialTx,
                    mySerialRx, serialTx, serialRx, arrived, ev >>

\* lines 229-230: mySerial.println("ATH"), up to the entry of updateSerial()
Hangup ==
    /\ pc = "hangup"
    /\ mySerialTx' = println(mySerialTx, HangupCommand)
    /\ ev' = Append(ev, Ev("println", 0, HangupCommand, NoRect))
    /\ pc' = "updateSerial"
    /\ ret' = "resume"
    /\ UNCHANGED << p, i, n, text_x, text_y, line, disc, banner,
                    mySerialRx, serialTx, serialRx, arrived >>

\* line 240: the for loop goes on with the buttons after the call button
Resume ==
    /\ pc = "resume"
    /\ Store(Scan(i + 1, p.x, p.y, LoopState))
    /\ UNCHANGED << p, mySerialRx, serialTx, serialRx, arrived >>

\* mutant: the relay runs at the end of every call of loop()
LoopReturn_with_relay ==
    /\ pc = "return"
    /\ pc' = "updateSerial"
    /\ ret' = "poll"
    /\ p' = NoPoint
    /\ ev' = << >>
    /\ UNCHANGED << i, n, text_x, text_y, line, disc, banner,
                    mySerialTx, mySerialRx, serialTx, serialRx, arrived >>

\* line 242: loop() returns and its local p goes out of scope
LoopReturn ==
    /\ pc = "return"
    /\ pc' = "poll"
    /\ p' = NoPoint
    /\ ev' = << >>
    /\ UNCHANGED << i, ret, n, text_x, text_y, line, disc, banner,
                    mySerialTx, mySerialRx, serialTx, serialRx, arrived >>

\* the bytes the operator console and the modem may send
ConsoleBytes == {"c"}
ModemBytes == {"m"}

\* a byte from the operator console reaches the hardware serial buffer
ConsoleSends(b) ==
    /\ arrived < MaxBytes
    /\ arrived' = arrived + 1
    /\ serialRx' = Append(serialRx, b)
    /\ UNCHANGED << pc, p, i, ret, n, text_x, text_y, line, disc, banner,
                    mySerialTx, mySerialRx, serialTx, ev >>

\* a byte from the modem reaches the software serial buffer
ModemSends(b) ==
    /\ arrived < MaxBytes
    /\ arrived' = arrived + 1
    /\ mySerialRx' = Append(mySerialRx, b)
    /\ UNCHANGED << pc, p, i, ret, n, text_x, text_y, line, disc, banner,
                    mySerialTx, serialTx, serialRx, ev >>

\* the operator console keeps sending: a byte arrives whenever the
\* hardware serial buffer has room for it
ConsoleStreams(b) ==
    /\ Len(serialRx) < RxRoom
    /\ serialRx' = Append(serialRx, b)
    /\ UNCHANGED << pc, p, i, ret, n, text_x, text_y, line, disc, banner,
                    mySerialTx, mySerialRx, serialTx, arrived, ev >>

\* the modem keeps sending: a byte arrives whenever the software serial
\* buffer has room for it
ModemStreams(b) ==
    /\ Len(mySerialRx) < RxRoom
    /\ mySerialRx' = Append(mySerialRx, b)
    /\ UNCHANGED << pc, p, i, ret, n, text_x, text_y, line, disc, banner,
                    mySerialTx, serialTx, serialRx, arrived, ev >>

(* ---------------------------------------------------------------------- *)
(* Touch samples                                                           *)
(* ---------------------------------------------------------------------- *)
\* ts.getPoint() reads the 10-bit ADC: raw x and y lie in 0 .. 1023
RawRange == 0..1023

\* a raw reading that the calibration maps to the display coordinate t
RawX(t) == CHOOSE r \in RawRange : MapX(r) = t
RawY(t) == CHOOSE r \in RawRange : MapY(r) = t

Sample(tx, ty, z) == [x |-> RawX(tx), y |-> RawY(ty), z |-> z]

Centre(b) == << phone_button[b].button_x, phone_button[b].button_y >>

\* display points on, next to and inside the edges of the square of button b
EdgePoints(b) ==
    LET cx == phone_button[b].button_x
        cy == phone_button[b].button_y
    IN  {cx - BUTTON_R, cx - BUTTON_R + 1, cx, cx + BUTTON_R - 1, cx + BUTTON_R}
          \X {cy - BUTTON_R, cy - BUTTON_R + 1, cy, cy + BUTTON_R - 1, cy + BUTTON_R}

\* a point of the gap between the first two columns and rows
GapPoint == << phone_button[0].button_x + BUTTON_R + 12,
               phone_button[0].button_y + BUTTON_R + 2 >>

PressZs == {MINPRESSURE + 1, MAXPRESSURE - 1}
IdleZs == {0, MINPRESSURE, MAXPRESSURE, 1023}

\* the samples of the full specification: the edges of button "1", the
\* centres of end, call and dele, a point in no button, and idle samples
Samples ==
    {Sample(t[1], t[2], MINPRESSURE + 1) : t \in EdgePoints(0)}
      \cup {Sample(t[1], t[2], z) :
                t \in {Centre(12), Centre(13), Centre(14), GapPoint}, z \in PressZs}
      \cup {Sample(t[1], t[2], z) : t \in {Centre(0), Centre(13)}, z \in IdleZs}

\* the samples of the dial specification: presses of "1", "2" and dele
DialSamples ==
    {Sample(t[1], t[2], 500) : t \in {Centre(0), Centre(1), Centre(14)}}

(* ---------------------------------------------------------------------- *)
(* Specifications                                                          *)
(* ---------------------------------------------------------------------- *)
Next ==
    \/ \E s \in Samples : GetPoint(s)
    \/ Touch
    \/ UpdateSerialDelay
    \/ UpdateSerialForward
    \/ UpdateSerialBackward
    \/ Hold
    \/ Hangup
    \/ Resume
    \/ LoopReturn
    \/ \E b \in ConsoleBytes : ConsoleSends(b)
    \/ \E b \in ModemBytes : ModemSends(b)

Spec == Init /\ [][Next]_vars

\* the keypad alone: two digits and delete, no call and no serial traffic
DialNext ==
    \/ \E s \in DialSamples : GetPoint(s)
    \/ Touch
    \/ LoopReturn

DialSpec == Init /\ [][DialNext]_vars

\* the samples of the repeat specification: a press of "1", a press of
\* dele, a press in no button and an idle sample
RepeatSamples ==
    {Sample(t[1], t[2], 500) : t \in {Centre(0), Centre(14), GapPoint}}
      \cup {Sample(Centre(0)[1], Centre(0)[2], 0)}

\* the keypad with one digit and delete: every length of the number line
RepeatNext ==
    \/ \E s \in RepeatSamples : GetPoint(s)
    \/ Touch
    \/ LoopReturn

RepeatSpec == Init /\ [][RepeatNext]_vars

\* the samples of the mapping specification: every raw reading of the
\* converter on both axes, pressed
MapSamples == {[x |-> r, y |-> r, z |-> 500] : r \in RawRange}

\* one poll cycle up to the end of the for loop, for every raw reading
MapNext ==
    \/ \E s \in MapSamples : GetPoint(s)
    \/ Touch

MapSpec == Init /\ [][MapNext]_vars

\* the samples of the call specification: a press of call, a press in no
\* button
CallSamples ==
    {Sample(t[1], t[2], 500) : t \in {Centre(13), GapPoint}}

\* the steps of the program: the single thread of control never stops
Program ==
    \/ Touch
    \/ UpdateSerialDelay
    \/ UpdateSerialForward
    \/ UpdateSerialBackward
    \/ Hold
    \/ Hangup
    \/ Resume
    \/ LoopReturn

\* the call sequence with serial channels that may deliver bytes for ever
StreamNext ==
    \/ \E s \in CallSamples : GetPoint(s)
    \/ Program
    \/ \E b \in ConsoleBytes : ConsoleStreams(b)
    \/ \E b \in ModemBytes : ModemStreams(b)

StreamSpec == Init /\ [][StreamNext]_vars /\ WF_vars(Program)

(* ---------------------------------------------------------------------- *)
(* Properties                                                              *)
(* ---------------------------------------------------------------------- *)
IsPrefix(a, b) == Len(a) <= Len(b) /\ SubSeq(b, 1, Len(a)) = a

\* the buttons the current call of loop() has actioned, in order
PressedIn(e) ==
    LET presses == SelectSeq(e, LAMBDA x : x.op = "press")
    IN  [k \in 1..Len(presses) |-> presses[k].k]

\* the point (x, y) lies strictly inside the bounding square of button b
InSquare(b, x, y) ==
    /\ phone_button[b].button_x - BUTTON_R < x
    /\ x < phone_button[b].button_x + BUTTON_R
    /\ phone_button[b].button_y - BUTTON_R < y
    /\ y < phone_button[b].button_y + BUTTON_R

\* x is the abscissa of a vertical edge, or y the ordinate of a horizontal
\* edge, of the bounding square of button b
OnEdge(b, x, y) ==
    \/ x = phone_button[b].button_x - BUTTON_R
    \/ x = phone_button[b].button_x + BUTTON_R
    \/ y = phone_button[b].button_y - BUTTON_R
    \/ y = phone_button[b].button_y + BUTTON_R

Buttons == 0..(NumButtons - 1)

\* what a call press does, in order
CallTrace ==
    << Ev("press", 13, "", NoRect),
       Ev("banner", 0, "Calling...", NoRect),
       Ev("println", 0, "ATD+916374354166;", NoRect),
       Ev("updateSerial", 500, "", NoRect),
       Ev("delay", 20000, "", NoRect),
       Ev("println", 0, "ATH", NoRect),
       Ev("updateSerial", 500, "", NoRect) >>

\* what the program itself (not the relay) has written to the Modem Link
ProgramLines == SelectSeq(mySerialTx, LAMBDA c : c \notin ConsoleBytes)

\* C1: a call press does, in this order and nothing else, the "Calling..."
\* banner, one ATD line, a relay, the 20000 ms hold, one ATH line and a
\* second relay; no touch sample is taken in between, so whenever the loop
\* polls as many ATD lines as ATH lines have been sent.
C1_CallSequence ==
    /\ pc \in {"poll", "touch", "return"} =>
          Count(mySerialTx, "ATD+916374354166;") = Count(mySerialTx, "ATH")
    /\ pc \notin {"poll", "touch", "return"} =>
          Count(mySerialTx, "ATD+916374354166;") >= 1 /\ 13 \in {ev[k].k : k \in 1..Len(ev)}
    /\ (\E k \in 1..Len(ev) : ev[k].op = "press" /\ ev[k].k = 13) =>
          /\ IsPrefix(ev, CallTrace)
          /\ pc = "return" => ev = CallTrace
    /\ \A k \in 1..Len(ProgramLines) :
          ProgramLines[k] = << "ATD+916374354166;", "\r\n", "ATH", "\r\n" >>[((k - 1) % 4) + 1]

C1_Witness ==
    /\ pc = "return"
    /\ ev = CallTrace
    /\ Len(serialTx) > 0
    /\ Len(ProgramLines) < Len(mySerialTx)

\* C2: a poll cycle whose sample has pressure <= 10 or >= 1000 leaves the
\* dial count, the cursor, the buttons as drawn, the banner and the number
\* line unchanged and writes nothing to either serial channel.
C2_IdleSampleIgnored ==
    [][(pc = "touch" /\ pc' # "touch" /\ (p.z <= 10 \/ p.z >= 1000)) =>
          /\ pc' = "return"
          /\ ev' = << >>
          /\ UNCHANGED << n, text_x, text_y, line, disc, banner, mySerialTx, serialTx >>]_vars

C2_Witness ==
    /\ pc = "return"
    /\ p.z = 1000
    /\ InSquare(13, MapX(p.x), MapY(p.y))
    /\ n > 0
    /\ ev = << >>

\* C3: for a qualifying sample whose mapped point lies strictly inside some
\* button's bounding square, the cycle actions the first such button in
\* layout order and no other button.
C3_FirstButtonOnly ==
    (pc = "return" /\ p.z > 10 /\ p.z < 1000) =>
        LET inside == {b \in Buttons : InSquare(b, p.x, p.y)}
        IN  inside # {} =>
              PressedIn(ev) = << CHOOSE b \in inside : \A c \in inside : b <= c >>

C3_Witness ==
    /\ pc = "return"
    /\ p.z = 11
    /\ p.x = phone_button[0].button_x - BUTTON_R + 1
    /\ p.y = phone_button[0].button_y + BUTTON_R - 1
    /\ PressedIn(ev) = << 0 >>
    /\ n > 1

\* C4: a button is not selected by a qualifying sample whose mapped x or y
\* lies on an edge of its square; when the point is strictly inside no
\* button's square, the cycle changes no state and sends nothing.
C4_EdgeNotSelected ==
    [][(pc = "touch" /\ pc' # "touch" /\ p.z > 10 /\ p.z < 1000) =>
          LET px == MapX(p.x)
              py == MapY(p.y)
          IN  \A b \in Buttons :
                OnEdge(b, px, py) =>
                  /\ \A k \in 1..Len(ev') : ~(ev'[k].op = "press" /\ ev'[k].k = b)
                  /\ (\A c \in Buttons : ~InSquare(c, px, py)) =>
                        /\ pc' = "return"
                        /\ ev' = << >>
                        /\ UNCHANGED << n, text_x, text_y, line, disc, banner,
                                        mySerialTx, serialTx >>]_vars

C4_Witness ==
    /\ pc = "return"
    /\ p.z = 11
    /\ p.x = phone_button[0].button_x + BUTTON_R
    /\ p.y = phone_button[0].button_y
    /\ ev = << >>
    /\ n > 0

\* the mapped point of the sample being processed lies inside button b
Struck(b) == p.z > 10 /\ p.z < 1000 /\ InSquare(b, MapX(p.x), MapY(p.y))

\* a step that runs the body of loop() on the sample just taken
TouchStep == pc = "touch" /\ pc' # "touch"

\* C5: after any sequence of poll cycles the number line holds between 0
\* and 13 characters.
C5_LengthBounded ==
    /\ n >= 0
    /\ n <= 13
    /\ Cardinality(line) = n

C5_Witness ==
    /\ n = 13
    /\ Cardinality(line) = 13
    /\ banner = "Calling ended"
    /\ Count(mySerialTx, "ATH") = 1
    /\ pc = "poll"

\* C6: a digit, # or * press at 13 characters and a delete press at 0
\* characters change neither the count, the cursor nor the number line,
\* draw or erase no glyph and send no modem command.
C6_FullAndEmptyNoOp ==
    [][(TouchStep /\ (\/ n = 13 /\ \E b \in 0..11 : Struck(b)
                      \/ n = 0 /\ Struck(14))) =>
          /\ UNCHANGED << n, text_x, text_y, line, mySerialTx, serialTx >>
          /\ \A k \in 1..Len(ev') : ev'[k].op = "press"]_vars

C6_Witness ==
    /\ pc = "return"
    /\ n = 13
    /\ ev = << Ev("press", 0, "", NoRect) >>
    /\ text_x = 231

\* one poll cycle, taken when the loop polls, with a qualifying sample on
\* the centre of button b
PressOnce(b, st) ==
    IF st.pc = "poll"
    THEN [Scan(0, Centre(b)[1], Centre(b)[2], st) EXCEPT !.pc = "poll", !.ev = << >>]
    ELSE st

\* N presses of button b and then N presses of dele, from the state st
RoundTrip(b, N, st) ==
    LET run[k \in 0..(2 * N)] ==
            IF k = 0 THEN st
            ELSE IF k <= N THEN PressOnce(b, run[k - 1])
            ELSE PressOnce(14, run[k - 1])
    IN  run[2 * N]

\* C7: from the empty number line with the cursor at (10, 6), N digit, #
\* or * presses followed by N delete presses leave the number line empty
\* and the cursor at (10, 6), for every N.
C7_RoundTrip ==
    /\ n = 0 => text_x = 10 /\ text_y = 6 /\ line = {}
    /\ (pc = "poll" /\ n = 0 /\ text_x = 10 /\ text_y = 6 /\ line = {}) =>
          \A N \in 0..MaxPresses : \A b \in 0..11 :
              LET after == RoundTrip(b, N, LoopState)
              IN  /\ after.n = 0
                  /\ after.text_x = 10
                  /\ after.text_y = 6
                  /\ after.line = {}

C7_Witness ==
    /\ pc = "return"
    /\ n = 0
    /\ text_x = 10
    /\ line = {}
    /\ \E k \in 1..Len(ev) : ev[k].op = "erase"

\* the glyphs of the number line stand one per cursor position, at the
\* first n positions from the left
LineShape ==
    /\ Cardinality(line) = n
    /\ \A g \in line :
          /\ g.y = 6
          /\ g.size = 3
          /\ g.ch \in {phone_button[b].button_name : b \in 0..11}
          /\ \E k \in 0..(n - 1) : g.x = 10 + 17 * k
    /\ \A g, h \in line : g.x = h.x => g = h

\* an accepted append puts its character at the next position, an effective
\* delete removes the character at the last position, nothing else changes
\* the number line
StackStep ==
    TouchStep =>
        IF \E b \in 0..11 : Struck(b) /\ n < 13
        THEN LET b == CHOOSE c \in 0..11 : Struck(c)
             IN  /\ line' = line \cup {Glyph(phone_button[b].button_name, 10 + 17 * n, 6, 3)}
                 /\ n' = n + 1
        ELSE IF Struck(14) /\ n > 0
        THEN /\ line' = {g \in line : g.x # 10 + 17 * (n - 1)}
             /\ n' = n - 1
        ELSE /\ line' = line
             /\ n' = n

\* C8: the number line is a bounded stack: its characters are the accepted
\* appends less the most recent ones removed by effective deletes, the k-th
\* remaining character standing at the k-th cursor position from the left.
C8_BoundedStack == []LineShape /\ [][StackStep]_vars

C8_Witness ==
    /\ pc = "return"
    /\ \E k \in 1..Len(ev) : ev[k].op = "erase"
    /\ line = {Glyph("1", 10, 6, 3), Glyph("2", 27, 6, 3)}

\* C9: an end press redraws the banner with "Calling ended", writes nothing
\* to the Modem Link and leaves the count, the number line and the cursor
\* unchanged.
C9_EndOnlyBanner ==
    [][(TouchStep /\ Struck(12)) =>
          /\ banner' = "Calling ended"
          /\ pc' = "return"
          /\ UNCHANGED << n, text_x, text_y, line, disc, mySerialTx, serialTx,
                          mySerialRx, serialRx >>]_vars

C9_Witness ==
    /\ pc = "return"
    /\ PressedIn(ev) = << 12 >>
    /\ banner = "Calling ended"
    /\ n > 0
    /\ Count(mySerialTx, "ATD+916374354166;") = 1

\* C10: whatever was entered before the call press, the command line
\* written to the Modem Link is the fixed string ATD+916374354166; and a
\* line terminator.
C10_FixedDialString ==
    /\ \A k \in 1..Len(mySerialTx) :
          mySerialTx[k] \notin ConsoleBytes \cup {"ATH", "\r\n"} =>
              /\ mySerialTx[k] = "ATD+916374354166;"
              /\ k < Len(mySerialTx)
              /\ mySerialTx[k + 1] = "\r\n"
    /\ (pc = "updateSerial" /\ ret = "hold") =>
          /\ Len(mySerialTx) >= 2
          /\ SubSeq(mySerialTx, Len(mySerialTx) - 1, Len(mySerialTx))
                = << "ATD+916374354166;", "\r\n" >>

C10_Witness ==
    /\ pc = "updateSerial"
    /\ ret = "hold"
    /\ n = 3
    /\ Cardinality(line) = 3
    /\ Count(mySerialTx, "ATD+916374354166;") = 1

\* the settle window of updateSerial() has elapsed and it has not returned
AfterWindow == pc \in {"forward", "backward"}

\* C11 as claimed: the relay is bounded by its settle window, so once the
\* window has elapsed it copies nothing more, whatever is still buffered.
C11_BoundedByWindow ==
    [][AfterWindow => UNCHANGED << mySerialTx, serialTx >>]_vars

\* C11 as amended: the relay first waits the whole window and then drains:
\* it copies the console bytes to the Modem Link, oldest first, until none
\* is buffered, then the modem bytes to the local channel until none is
\* buffered, and returns only on finding the modem buffer empty.
C11_DrainsAfterWindow ==
    [][/\ (pc = "updateSerial" /\ pc' # pc) =>
              /\ pc' = "forward"
              /\ ev' = Append(ev, Ev("updateSerial", 500, "", NoRect))
              /\ UNCHANGED << mySerialTx, serialTx, serialRx, mySerialRx >>
       /\ (pc = "forward" /\ pc' # pc) =>
              /\ pc' = "backward"
              /\ serialRx = << >>
       /\ (pc = "forward" /\ serialRx # << >> /\ mySerialTx' # mySerialTx) =>
              /\ mySerialTx' = Append(mySerialTx, Head(serialRx))
              /\ serialRx' = Tail(serialRx)
       /\ (pc = "backward" /\ pc' # pc) =>
              /\ pc' \in {"hold", "resume"}
              /\ mySerialRx = << >>
              /\ UNCHANGED << mySerialTx, serialTx >>
       /\ (pc = "backward" /\ mySerialRx # << >> /\ serialTx' # serialTx) =>
              /\ serialTx' = Append(serialTx, Head(mySerialRx))
              /\ mySerialRx' = Tail(mySerialRx)
              /\ pc' = "backward"
       /\ (AfterWindow /\ serialRx # << >> /\ pc = "forward") => pc' = "forward"
       /\ (AfterWindow /\ mySerialRx # << >> /\ pc = "backward") => pc' = "backward"]_vars

\* the relay has copied a byte in each direction after its window elapsed
C11_Witness ==
    /\ pc = "backward"
    /\ ret = "hold"
    /\ Count(mySerialTx, "c") = 1
    /\ serialTx = << "m" >>
    /\ mySerialRx = << >>

\* no touch sample shortens or skips the call: none is taken before the
\* second relay has returned, and the hang-up is written only after the
\* whole hold
NoCancellation ==
    /\ [][(pc \notin {"poll", "touch", "return"}) => p' = p]_vars
    /\ [][(pc = "hangup" /\ pc' # pc) =>
              /\ ev = SubSeq(CallTrace, 1, 5)
              /\ ev' = SubSeq(CallTrace, 1, 6)]_vars
    /\ [][(pc = "hold" /\ pc' # pc) => pc' = "hangup"]_vars

\* the call has run to its end, hang-up sent after the whole hold, and
\* loop() is about to return and poll again
CallDone == pc = "return" /\ ev = CallTrace

\* a byte arrives on one of the two serial channels
ByteArrives ==
    Len(serialRx') > Len(serialRx) \/ Len(mySerialRx') > Len(mySerialRx)

\* C12 as claimed: once the dial command is sent nothing cancels the call,
\* the hang-up is eventually sent after the whole hold and the loop
\* eventually polls again, whatever the sensor and the channels do.
C12_HangupAlways ==
    /\ NoCancellation
    /\ (pc = "updateSerial" /\ ret = "hold") ~> CallDone

\* C12 as amended: nothing cancels the call, and if bytes stop arriving on
\* the serial channels the hang-up is eventually sent after the whole hold
\* and the loop eventually polls again.
C12_HangupUnlessStreaming ==
    /\ NoCancellation
    /\ (<>[][~ByteArrives]_vars) =>
          ((pc = "updateSerial" /\ ret = "hold") ~> CallDone)

\* a call has run to its end although bytes were relayed during it
C12_Witness ==
    /\ pc = "return"
    /\ ev = CallTrace
    /\ Count(mySerialTx, "c") >= 2
    /\ Count(serialTx, "m") >= 2

\* some point with integer coordinates lies strictly inside the bounding
\* squares of both b and c
SquaresOverlap(b, c) ==
    LET bx == phone_button[b].button_x
        by == phone_button[b].button_y
        cx == phone_button[c].button_x
        cy == phone_button[c].button_y
    IN  /\ Max(bx, cx) - BUTTON_R + 1 <= Min(bx, cx) + BUTTON_R - 1
        /\ Max(by, cy) - BUTTON_R + 1 <= Min(by, cy) + BUTTON_R - 1

\* the buttons whose squares hold the point (x, y), in layout order
RECURSIVE Containing(_, _, _)
Containing(b, x, y) ==
    IF b >= NumButtons THEN << >>
    ELSE (IF InSquare(b, x, y) THEN << b >> ELSE << >>) \o Containing(b + 1, x, y)

\* no two different buttons of the table have squares that meet; the
\* table is never written, so it is the same in every state
LayoutDisjoint == \A b, c \in Buttons : b # c => ~SquaresOverlap(b, c)

\* C13: the bounding squares of the 15 buttons of the 240x320 layout are
\* pairwise disjoint, so the for loop, which tests all 15 buttons and does
\* not stop at a match, actions at most one button in a poll cycle.
C13_SquaresDisjoint ==
    /\ (pc = "poll" /\ line = {}) => LayoutDisjoint
    /\ pc = "return" =>
          /\ Len(PressedIn(ev)) <= 1
          /\ (p.z > 10 /\ p.z < 1000) => PressedIn(ev) = Containing(0, p.x, p.y)

\* the last button of the table is actioned: the loop went through all 15
C13_Witness ==
    /\ pc = "return"
    /\ InSquare(14, p.x, p.y)
    /\ PressedIn(ev) = << 14 >>
    /\ \E k \in 1..Len(ev) : ev[k].op = "erase"

\* the counts after 0, 1, ... MaxPresses consecutive poll cycles with a
\* qualifying sample on the centre of button b, from the state st
RECURSIVE CountsAfter(_, _, _)
CountsAfter(b, k, st) ==
    IF k = 0 THEN << >>
    ELSE LET nx == PressOnce(b, st) IN << nx.n >> \o CountsAfter(b, k - 1, nx)

\* C14: every poll cycle with a qualifying sample in a button actions it,
\* whatever the cycle before did: from a number line of n characters, k
\* such cycles in a row on one digit, # or * button append min(k, 13 - n)
\* characters and k in a row on dele remove min(k, n).
C14_EveryCycleActs ==
    pc = "poll" =>
        /\ \A b \in 0..11 :
              CountsAfter(b, MaxPresses, LoopState)
                  = [k \in 1..MaxPresses |-> n + Min(k, 13 - n)]
        /\ CountsAfter(14, MaxPresses, LoopState)
              = [k \in 1..MaxPresses |-> n - Min(k, n)]

\* the same button has been actioned in three cycles and has appended
\* three times
C14_Witness ==
    /\ pc = "return"
    /\ PressedIn(ev) = << 0 >>
    /\ \E k \in 1..Len(ev) : ev[k].op = "print"
    /\ n = 3
    /\ {g.ch : g \in line} = {"1"}

\* q is the quotient a / b rounded toward zero
TruncatedQuotient(q, a, b) ==
    /\ Abs(q) * Abs(b) <= Abs(a)
    /\ Abs(a) < (Abs(q) + 1) * Abs(b)
    /\ q # 0 => ((q > 0) <=> ((a > 0) = (b > 0)))

\* C15: the mapping of a qualifying sample sends a raw reading inside the
\* calibrated range (180..910 in x, 135..760 in y) to 0..240 and 0..320,
\* sends 910 to 0 and 180 to 240 in x, 760 to 0 and 135 to 320 in y, does
\* not increase when the raw reading increases, and is the quotient
\* truncated toward zero.
C15_MappingInRange ==
    [][(TouchStep /\ p.z > MINPRESSURE /\ p.z < MAXPRESSURE) =>
          /\ (p.x >= 180 /\ p.x <= 910) => (p'.x >= 0 /\ p'.x <= 240)
          /\ (p.y >= 135 /\ p.y <= 760) => (p'.y >= 0 /\ p'.y <= 320)
          /\ p.x = 910 => p'.x = 0
          /\ p.x = 180 => p'.x = 240
          /\ p.y = 760 => p'.y = 0
          /\ p.y = 135 => p'.y = 320
          /\ \A r \in RawRange : r > p.x => MapX(r) <= p'.x
          /\ \A r \in RawRange : r > p.y => MapY(r) <= p'.y
          /\ TruncatedQuotient(p'.x, (p.x - 910) * 240, 180 - 910)
          /\ TruncatedQuotient(p'.y, (p.y - 760) * 320, 135 - 760)
          /\ p'.z = p.z]_vars

\* the raw reading 180 has been mapped: x is the right display edge
C15_Witness ==
    /\ pc = "return"
    /\ p.z = 500
    /\ p.x = 240
    /\ p.y = 296

\* the rectangles painted over the number line in the cycle logged in e
EraseRects(e) == {e[k].r : k \in {j \in 1..Len(e) : e[j].op = "erase"}}

\* the positions at which characters were printed in the cycle logged in e
PrintedAt(e) == {e[k].r : k \in {j \in 1..Len(e) : e[j].op = "print"}}

\* C16 as stated: an accepted append advances the cursor by 6 * 3 = 18, an
\* effective delete steps it back by 18 and paints the 18 wide, 24 tall
\* box at the removed character's position.
C16_FullGlyphWidth ==
    [][TouchStep =>
          /\ n' = n + 1 => text_x' = text_x + 18
          /\ n' = n - 1 =>
                /\ text_x' = text_x - 18
                /\ EraseRects(ev') =
                      {<< text_x', text_y, text_x' + 18 - 1, text_y + 24 - 1 >>}]_vars

\* C16: an accepted append prints at the cursor and advances it by one
\* less than the glyph width, 6 * 3 - 1 = 17; an effective delete steps it
\* back by 17 and paints the background over the rectangle from the new
\* cursor position, 18 wide and 23 tall, which removes the last character
\* and nothing else.
C16_StepOneLess ==
    [][TouchStep =>
          /\ (\E b \in 0..11 : Struck(b)) /\ n < 13 => n' = n + 1
          /\ Struck(14) /\ n > 0 => n' = n - 1
          /\ n' = n + 1 =>
                /\ text_x' = text_x + 17
                /\ PrintedAt(ev') = {<< text_x, text_y >>}
                /\ EraseRects(ev') = {}
          /\ n' = n - 1 =>
                /\ text_x' = text_x - 17
                /\ PrintedAt(ev') = {}
                /\ EraseRects(ev') =
                      {<< text_x', text_y, text_x' + 18 - 1, text_y + 23 - 1 >>}
                /\ line' = {g \in line : g.x # text_x'}
                /\ Cardinality(line') = Cardinality(line) - 1]_vars

\* the second of two characters has been deleted: the cursor is back at
\* 10 + 17 and the rectangle (27, 6) .. (44, 28) has been painted
C16_Witness ==
    /\ pc = "return"
    /\ n = 1
    /\ text_x = 27
    /\ EraseRects(ev) = {<< 27, 6, 44, 28 >>}
    /\ Cardinality(line) = 1

\* a step that is an accepted append: a qualifying sample in a digit, #
\* or * button with fewer than 13 characters shown
AcceptedAppend ==
    /\ TouchStep
    /\ \E b \in 0..11 : Struck(b)
    /\ n < 13
    /\ n' = n + 1
    /\ text_x' = text_x + 17

\* a step that is an effective delete: a qualifying sample in dele with at
\* least one character shown
EffectiveDelete ==
    /\ TouchStep
    /\ Struck(14)
    /\ n > 0
    /\ n' = n - 1
    /\ text_x' = text_x - 17

\* C17: in every reachable state text_x = 10 + 17 * n with 0 <= n <= 13, so
\* text_x lies in 10 .. 231, and text_y = 6; a step that changes text_x or
\* n is an accepted append or an effective delete.
C17_CursorAgrees ==
    /\ [](/\ text_x = 10 + 17 * n
          /\ n >= 0 /\ n <= 13
          /\ text_x >= 10 /\ text_x <= 231
          /\ text_y = 6)
    /\ [][(text_x' # text_x \/ n' # n) => (AcceptedAppend \/ EffectiveDelete)]_vars

\* the thirteenth character has just been accepted: the cursor is at its
\* rightmost position
C17_Witness ==
    /\ pc = "return"
    /\ n = 13
    /\ text_x = 231
    /\ text_y = 6
    /\ PrintedAt(ev) = {<< 214, 6 >>}

\* a step that writes a byte or a line to a serial channel or takes a
\* byte out of a receive buffer
SerialIO ==
    \/ mySerialTx' # mySerialTx
    \/ serialTx' # serialTx
    \/ Len(serialRx') < Len(serialRx)
    \/ Len(mySerialRx') < Len(mySerialRx)

\* a step of the handling of a call press: the dispatch of a qualifying
\* sample in the call button, or a later step of the same call of loop()
HandlesCall ==
    \/ TouchStep /\ Struck(13)
    \/ /\ pc \in {"forward", "backward", "hangup"}
       /\ PressedIn(ev) = << 13 >>
       /\ InSquare(13, p.x, p.y)

\* C18: a step that writes to the Modem Link or to the control channel, or
\* reads from either, belongs to the handling of a call press; a poll
\* cycle that does not resolve to call ends without touching either
\* channel, so the bytes waiting in the receive buffers stay there.
C18_SerialOnlyInCall ==
    /\ [][SerialIO => HandlesCall]_vars
    /\ [][(TouchStep /\ ~Struck(13)) =>
             /\ pc' = "return"
             /\ UNCHANGED << mySerialTx, serialTx, serialRx, mySerialRx >>]_vars

\* a digit cycle has ended with a byte waiting on each channel and nothing
\* relayed
C18_Witness ==
    /\ pc = "return"
    /\ PressedIn(ev) = << 0 >>
    /\ serialRx = << "c" >>
    /\ mySerialRx = << "m" >>
    /\ mySerialTx = << >>
    /\ serialTx = << >>

====
